---- MODULE Spec2Model ----
(***************************************************************************)
(* A model of olx_scraper.py: the orchestrator main(), its three           *)
(* acquisition strategies (Selenium, API probe, Amazon), the deduplicator  *)
(* and save_results.  Collaborators (browser, network, file system) are    *)
(* nondeterministic choices over the outcomes they can produce.            *)
(***************************************************************************)
EXTENDS Integers, Sequences, FiniteSets, TLC

VARIABLES
    pc,            \* position of main(): which step runs next
    all_listings,  \* main()'s accumulator (line 475)
    driver,        \* self.driver of SeleniumOLXScraper: "none", "open", "quit"
    page,          \* loop variable of scrape_with_selenium (line 65)
    sel_listings,  \* scrape_with_selenium's local all_listings (line 62)
    selOutcome,    \* how scrape_with_selenium ended, and why
    debugFile,     \* selenium_debug.html was written (lines 96-97)
    apiIdx,        \* index into api_urls of the next endpoint to try
    probes,        \* history: one entry per endpoint requested, in order
    apiOutcome,    \* how search_olx_api ended
    apiResult,     \* what search_olx_api returned
    amazonOutcome, \* how scrape_amazon_car_covers ended
    amazonResult,  \* what scrape_amazon_car_covers returned
    invoked,       \* history: the strategies main() invoked, in order
    csvFile,       \* alternative_car_covers.csv
    jsonFile,      \* alternative_car_covers.json
    saveCalls,     \* history: the argument of every save_results call
    saveError,     \* the error save_results raised, "none" if none
    message,       \* the final report of main(): "none", "success", "zero"
    dinput,        \* deduplicator harness: the input sequence
    doutput,       \* deduplicator harness: the returned sequence
    dpc,           \* deduplicator harness: "call", "done", "idle"
    pmatches,      \* page harness: what each selector matches on the page
    pparsed,       \* page harness: parse_selenium_element's result per element
    plistings,     \* page harness: what extract_selenium_listings returned
    ppc            \* page harness: "call", "done", "idle"

vars == << pc, all_listings, driver, page, sel_listings, selOutcome, debugFile,
           apiIdx, probes, apiOutcome, apiResult, amazonOutcome, amazonResult,
           invoked, csvFile, jsonFile, saveCalls, saveError, message,
           dinput, doutput, dpc, pmatches, pparsed, plistings, ppc >>

-----------------------------------------------------------------------------
(* Bounds of the model *)

MaxItems == 2      \* items in one API payload
MaxProducts == 2   \* products on the Amazon page
MaxElems == 1      \* elements one selector matches on a page
MaxDedup == 3      \* length of the deduplicator harness' input

(* Program constants *)

max_pages == 2     \* main() calls scrape_with_selenium(max_pages=2)
NumEndpoints == 4  \* len(api_urls)
MinTitleLen == 5   \* len(title) < 5

-----------------------------------------------------------------------------
(* Helpers *)

RECURSIVE SeqsUpTo(_, _)
SeqsUpTo(S, n) ==
    IF n = 0 THEN { <<>> }
    ELSE LET shorter == SeqsUpTo(S, n - 1)
         IN  shorter \cup { Append(s, x) : s \in { t \in shorter : Len(t) = n - 1 }, x \in S }

\* dict.get(key, default)
Get(d, k, default) == IF k \in DOMAIN d THEN d[k] ELSE default

\* Python truthiness of a string
Truthy(s) == s # ""

-----------------------------------------------------------------------------
(* deduplicate_listings, lines 193-204 *)

RECURSIVE DedupFrom(_, _, _, _)
DedupFrom(listings, i, unique_listings, seen_links) ==
    IF i > Len(listings) THEN unique_listings
    ELSE LET link == Get(listings[i], "link", "")
         IN  IF Truthy(link) /\ link \notin seen_links
             THEN DedupFrom(listings, i + 1, Append(unique_listings, listings[i]),
                            seen_links \cup {link})
             ELSE DedupFrom(listings, i + 1, unique_listings, seen_links)

\* mutant: the seen set is never consulted
deduplicate_listings_noseen(listings) ==
    SelectSeq(listings, LAMBDA l : Truthy(Get(l, "link", "")))

deduplicate_listings(listings) == DedupFrom(listings, 1, <<>>, {})

-----------------------------------------------------------------------------
(* Page elements as the browser hands them to parse_selenium_element.      *)
(*   tag      element.tag_name                                             *)
(*   href     href of the element (tag "a") or of its first descendant     *)
(*            anchor; "absent": no anchor / no href attribute              *)
(*   text     first line of element.text                                   *)
(*   heading  text of the first 'h2, h3, h4, span[title]' descendant,      *)
(*            "absent" when find_element raises NoSuchElementException     *)
(*   price, location, date   what the three patterns match in the text,    *)
(*            "" when they match nothing                                   *)
(*   img      src of the first img descendant, "absent" when none          *)

Elements == {
    [tag |-> "a",   href |-> "https://www.olx.in/item/1", text |-> "Car Cover Waterproof",
     heading |-> "absent", price |-> "Rs 500", location |-> "", date |-> "today",
     img |-> "https://img/1.jpg"],
    [tag |-> "div", href |-> "https://www.olx.in/item/2", text |-> "New",
     heading |-> " SUV Body Cover ", price |-> "", location |-> "Pune, Maharashtra",
     date |-> "", img |-> "absent"],
    [tag |-> "div", href |-> "https://www.olx.in/item/1", text |-> "",
     heading |-> "Ad", price |-> "", location |-> "", date |-> "", img |-> ""],
    [tag |-> "a",   href |-> "https://www.olx.in/profile/9", text |-> "Seller profile",
     heading |-> "absent", price |-> "", location |-> "", date |-> "", img |-> "absent"],
    [tag |-> "div", href |-> "absent", text |-> "Sponsored banner",
     heading |-> "absent", price |-> "", location |-> "", date |-> "", img |-> "absent"] }

\* '/item/' in href
HasItemPath(href) == href \in { "https://www.olx.in/item/1", "https://www.olx.in/item/2" }

\* str.strip()
Strip(s) ==
    IF s = " SUV Body Cover " THEN "SUV Body Cover"
    ELSE IF s = " Cover X " THEN "Cover X"
    ELSE s

\* the module never imports re (lines 7-20), so re.search raises NameError
ReImported == FALSE

\* x or "N/A" for a match / attribute that may be missing
OrNA(s) == IF s \in {"", "absent"} THEN "N/A" ELSE s

\* parse_selenium_element, lines 140-191: <<>> stands for None
parse_selenium_element(element) ==
    IF element.href = "absent" \/ ~HasItemPath(element.href)
    THEN <<>>                                         \* lines 150-154, or 190-191
    ELSE IF Len(element.text) < MinTitleLen /\ element.heading = "absent"
    THEN <<>>                                         \* line 161 raises, 190-191
    ELSE LET title == IF Len(element.text) < MinTitleLen
                      THEN element.heading ELSE element.text
         IN  IF Len(title) < MinTitleLen THEN <<>>    \* lines 164-165
             ELSE IF ~ReImported THEN <<>>            \* line 170 raises, 190-191
             ELSE << [link      |-> element.href,
                      title     |-> Strip(title),
                      price     |-> OrNA(element.price),
                      location  |-> OrNA(element.location),
                      date      |-> OrNA(element.date),
                      image_url |-> OrNA(element.img)] >>

RECURSIVE ParseAll(_, _)
ParseAll(elements, i) ==
    IF i > Len(elements) THEN <<>>
    ELSE parse_selenium_element(elements[i]) \o ParseAll(elements, i + 1)

\* the selectors of lines 117-121, in order
NumSelectors == 3

\* what each selector matches on the page currently loaded
PageMatches == [ 1..NumSelectors -> SeqsUpTo(Elements, MaxElems) ]

\* extract_selenium_listings, lines 112-138: the first selector that matches
\* anything is the only one parsed
extract_selenium_listings(matches) ==
    LET hits == { s \in 1..NumSelectors : matches[s] # <<>> }
    IN  IF hits = {} THEN deduplicate_listings(<<>>)
        ELSE LET first == CHOOSE s \in hits : \A t \in hits : s <= t
             IN  deduplicate_listings(ParseAll(matches[first], 1))

-----------------------------------------------------------------------------
(* The API probe, lines 210-279 *)

\* items of a payload: JSON objects, and one item that is no object (a string)
RawItems == {
    [title |-> "Car Cover A", url |-> "https://x/item/1", price |-> "500"],
    [name |-> "SUV Cover", link |-> "https://x/item/1", city |-> "Pune"],
    [price |-> "300"],
    [title |-> "", url |-> ""],
    [nondict |-> TRUE] }

IsDict(item) == "nondict" \notin DOMAIN item

\* a JSON value under a top-level key: a list of items, or null (not iterable)
JsonNull == [t |-> "null", items |-> <<>>]
JsonList(items) == [t |-> "list", items |-> items]
JsonValues == { JsonNull } \cup { JsonList(s) : s \in SeqsUpTo(RawItems, MaxItems) }
SmallValues == { JsonNull, JsonList(<<>>),
                 JsonList(<< [title |-> "Car Cover A", url |-> "https://x/item/1", price |-> "500"] >>) }

\* a decoded payload: an object with its fields, or an array of strings
Bodies ==
    { [top |-> "object", fields |-> f] :
        f \in UNION { [K -> JsonValues] : K \in { {}, {"data"}, {"results"}, {"ads"}, {"error"} } } }
    \cup { [top |-> "object", fields |-> f] :
        f \in UNION { [K -> SmallValues] : K \in { {"data", "results"}, {"results", "ads"} } } }
    \cup { [top |-> "array", fields |-> [k \in K |-> JsonNull]] : K \in { {}, {"data"} } }

NoBody == [top |-> "object", fields |-> [k \in {} |-> JsonNull]]

\* what session.get gives for one endpoint: a transport error, or a status
\* and a body that decodes as JSON or does not
Responses ==
    { [net |-> "error", status |-> 0, wellformed |-> FALSE, body |-> NoBody],
      [net |-> "ok", status |-> 403, wellformed |-> FALSE, body |-> NoBody],
      [net |-> "ok", status |-> 200, wellformed |-> FALSE, body |-> NoBody] }
    \cup { [net |-> "ok", status |-> 200, wellformed |-> TRUE, body |-> b] : b \in Bodies }

\* mutant: only 'data' is looked for
HasExpectedKey_dataonly(data) == "data" \in DOMAIN data.fields

\* 'data' in data or 'results' in data or 'ads' in data, line 246
HasExpectedKey(data) == DOMAIN data.fields \cap {"data", "results", "ads"} # {}

\* lines 267-274
ApiListing(item) ==
    [title     |-> Get(item, "title", Get(item, "name", "N/A")),
     price     |-> Get(item, "price", Get(item, "amount", "N/A")),
     location  |-> Get(item, "location", Get(item, "city", "N/A")),
     date      |-> Get(item, "created_at", Get(item, "date", "N/A")),
     link      |-> Get(item, "url", Get(item, "link", "N/A")),
     image_url |-> Get(item, "image", Get(item, "photo", "N/A"))]

RECURSIVE ApiListings(_, _)
ApiListings(items, i) ==
    IF i > Len(items) THEN <<>>
    ELSE (IF IsDict(items[i]) THEN << ApiListing(items[i]) >> ELSE <<>>)   \* 276-277
         \o ApiListings(items, i + 1)

\* parse_api_response, lines 258-279: the listings, or raised when data has
\* no .get (an array) or the selected value cannot be iterated
parse_api_response(data) ==
    IF data.top # "object" THEN [raised |-> TRUE, listings |-> <<>>]
    ELSE LET items == Get(data.fields, "data",
                          Get(data.fields, "results",
                              Get(data.fields, "ads", JsonList(<<>>))))
         IN  IF items.t # "list" THEN [raised |-> TRUE, listings |-> <<>>]
             ELSE [raised |-> FALSE, listings |-> ApiListings(items.items, 1)]

\* mutant: the handler of lines 252-253 lets the exception through
ApiOnException_reraise == "raise"

\* except Exception: continue, lines 252-253
ApiOnException == "continue"

\* one iteration of the loop of lines 231-253 for the response resp: return
\* the listings, go on to the next endpoint, or raise
TryEndpoint(resp) ==
    IF resp.net = "error" THEN [next |-> ApiOnException, listings |-> <<>>]
    ELSE IF resp.status # 200 THEN [next |-> "continue", listings |-> <<>>]
    ELSE IF ~resp.wellformed THEN [next |-> "continue", listings |-> <<>>]   \* 249-250
    ELSE IF ~HasExpectedKey(resp.body) THEN [next |-> "continue", listings |-> <<>>]
    ELSE LET parsed == parse_api_response(resp.body)
         IN  IF parsed.raised THEN [next |-> ApiOnException, listings |-> <<>>]
             ELSE [next |-> "return", listings |-> parsed.listings]

-----------------------------------------------------------------------------
(* The Amazon strategy, lines 392-442 *)

\* a search-result div:
\*   mini   text of its h2 of class a-size-mini, "absent" when there is none
\*   price  text of its span.a-price-whole, "absent" when there is none
\*   h2     it has an h2 at all
\*   a      href of the first anchor of that h2; "absent": no anchor;
\*          "nohref": an anchor without href (link_elem['href'] raises KeyError)
Products == {
    [mini |-> " Cover X ", price |-> "499", h2 |-> TRUE,  a |-> "/dp/1"],
    [mini |-> "absent",  price |-> "absent", h2 |-> FALSE, a |-> "absent"],
    [mini |-> "Cover Z", price |-> "999", h2 |-> TRUE,  a |-> "nohref"] }

\* lines 415-432; "Rs" stands for the rupee sign of line 419
AmazonListing(product) ==
    [title     |-> IF product.mini # "absent" THEN Strip(product.mini) ELSE "N/A",
     price     |-> IF product.price # "absent" THEN "Rs" \o product.price ELSE "N/A",
     location  |-> "Amazon India",
     date      |-> "Available",
     link      |-> IF product.h2 /\ product.a # "absent"
                   THEN "https://amazon.in" \o product.a ELSE "N/A",
     image_url |-> "N/A",
     source    |-> "Amazon"]

RECURSIVE AmazonListings(_, _)
AmazonListings(products, i) ==
    IF i > Len(products) THEN <<>>
    ELSE (IF products[i].h2 /\ products[i].a = "nohref"
          THEN <<>>                                   \* KeyError, lines 433-434
          ELSE << AmazonListing(products[i]) >>)
         \o AmazonListings(products, i + 1)

AmazonResponses ==
    { [net |-> "error", status |-> 0,   products |-> <<>>],
      [net |-> "ok",    status |-> 503, products |-> <<>>] }
    \cup { [net |-> "ok", status |-> 200, products |-> ps] :
             ps \in SeqsUpTo(Products, MaxProducts) }

\* except Exception, lines 439-440, falling through to return [] of line 442
AmazonOnException == "return"

\* scrape_amazon_car_covers, lines 396-442
scrape_amazon_car_covers(resp) ==
    IF resp.net = "error" THEN [next |-> AmazonOnException, listings |-> <<>>]
    ELSE IF resp.status = 200
    THEN [next |-> "return", listings |-> AmazonListings(resp.products, 1)]
    ELSE [next |-> "return", listings |-> <<>>]       \* line 442

-----------------------------------------------------------------------------
(* save_results, lines 526-543 *)

\* the two output files as they were before the run (not there, or left by
\* an earlier run): status "prior" is a file the run has not touched
PriorCsv == [status |-> "prior", header |-> {}, rows |-> <<>>]
PriorJson == [status |-> "prior", total |-> 0, listings |-> <<>>]

\* where an I/O error strikes, if it does
IoFaults == {"none", "csv_open", "csv_write", "json_open", "json_write"}

\* DictWriter._dict_to_list: a key outside fieldnames raises ValueError,
\* a missing key is written as ''
CsvRow(listing, fieldnames) == [k \in fieldnames |-> Get(listing, k, "")]
RowFits(listing, fieldnames) == DOMAIN listing \subseteq fieldnames

RECURSIVE CsvRows(_, _, _)
CsvRows(listings, fieldnames, n) ==
    IF n = 0 THEN <<>>
    ELSE Append(CsvRows(listings, fieldnames, n - 1), CsvRow(listings[n], fieldnames))

\* fieldnames=listings[0].keys(), line 531
CsvFieldnames(listings) == DOMAIN listings[1]

\* the files and the error after save_results(listings) with the fault io
save_results(listings, csv, json, io) ==
    IF io = "csv_open" THEN [csv |-> csv, json |-> json, error |-> "IOError"]
    ELSE IF io = "csv_write" /\ listings # <<>>
    THEN [csv |-> [status |-> "partial", header |-> {}, rows |-> <<>>],
          json |-> json, error |-> "IOError"]
    ELSE LET fieldnames == IF listings # <<>> THEN CsvFieldnames(listings) ELSE {}
             bad == { i \in 1..Len(listings) : ~RowFits(listings[i], fieldnames) }
             firstBad == CHOOSE i \in bad : \A j \in bad : i <= j
         IN  IF bad # {}
             THEN [csv |-> [status |-> "partial", header |-> fieldnames,
                            rows |-> CsvRows(listings, fieldnames, firstBad - 1)],
                   json |-> json, error |-> "ValueError"]
             ELSE LET written == [status |-> "complete", header |-> fieldnames,
                                  rows |-> CsvRows(listings, fieldnames, Len(listings))]
                  IN  IF io = "json_open"
                      THEN [csv |-> written, json |-> json, error |-> "IOError"]
                      ELSE IF io = "json_write"
                      THEN [csv |-> written,
                            json |-> [status |-> "partial", total |-> 0, listings |-> <<>>],
                            error |-> "IOError"]
                      ELSE [csv |-> written,
                            json |-> [status |-> "complete", total |-> Len(listings),
                                      listings |-> listings],
                            error |-> "none"]

-----------------------------------------------------------------------------
(* main(), lines 471-524 *)

\* mutant: an exception of a strategy is not caught and ends main()
AfterStrategy_uncaught(strategy, how) ==
    IF how = "interrupt" THEN "interrupted"
    ELSE IF how = "raised" THEN "failed"
    ELSE IF strategy = "selenium" THEN "api"
    ELSE IF strategy = "api" THEN "amazon"
    ELSE "finish"

\* where main() goes when a strategy ended: it returned, it raised an
\* Exception (caught at lines 487, 500, 511), or a KeyboardInterrupt, which
\* except Exception does not catch, unwinds main()
AfterStrategy(strategy, how) ==
    IF how = "interrupt" THEN "interrupted"
    ELSE IF strategy = "selenium" THEN "api"
    ELSE IF strategy = "api" THEN "amazon"
    ELSE "finish"

\* if xs: all_listings.extend(xs), lines 482-483, 495-496, 508-509
MainAccumulate(acc, result) == IF result # <<>> THEN acc \o result ELSE acc

\* mutant: save_results is called whatever was collected
ShouldSave_always(listings) == TRUE

\* if all_listings:, line 515
ShouldSave(listings) == listings # <<>>

\* finally: if self.driver: self.driver.quit(), lines 106-108
Finally(d) == IF d = "open" THEN "quit" ELSE d

selVars == << driver, page, sel_listings, selOutcome, debugFile >>
apiVars == << apiIdx, probes, apiOutcome, apiResult >>
amazonVars == << amazonOutcome, amazonResult >>
fileVars == << csvFile, jsonFile, saveCalls, saveError, message >>
dedupVars == << dinput, doutput, dpc >>
parseVars == << pmatches, pparsed, plistings, ppc >>

Init ==
    /\ pc = "selenium"
    /\ all_listings = <<>>
    /\ driver = "none"
    /\ page = 0
    /\ sel_listings = <<>>
    /\ selOutcome = "pending"
    /\ debugFile = FALSE
    /\ apiIdx = 1
    /\ probes = <<>>
    /\ apiOutcome = "pending"
    /\ apiResult = <<>>
    /\ amazonOutcome = "pending"
    /\ amazonResult = <<>>
    /\ invoked = <<>>
    /\ csvFile = PriorCsv
    /\ jsonFile = PriorJson
    /\ saveCalls = <<>>
    /\ saveError = "none"
    /\ message = "none"
    /\ dinput = <<>>
    /\ doutput = <<>>
    /\ dpc = "idle"
    /\ pmatches = [s \in 1..NumSelectors |-> <<>>]
    /\ pparsed = <<>>
    /\ plistings = <<>>
    /\ ppc = "idle"

\* setup_driver, lines 32-55, and the test of line 59
SetupDriver ==
    /\ pc = "selenium"
    /\ invoked' = Append(invoked, "selenium")
    /\ \E o \in {"chrome_fails", "script_fails", "ok", "interrupt"} :
          /\ driver' = IF o = "chrome_fails" THEN "none" ELSE "open"   \* line 47
          /\ IF o = "ok"
             THEN /\ pc' = "selenium_page"
                  /\ page' = 1
                  /\ selOutcome' = selOutcome
             ELSE IF o = "interrupt"      \* KeyboardInterrupt at line 48
             THEN /\ pc' = AfterStrategy("selenium", "interrupt")
                  /\ page' = page
                  /\ selOutcome' = "interrupted"
             ELSE /\ pc' = AfterStrategy("selenium", "returned")  \* lines 53-55, 59-60
                  /\ page' = page
                  /\ selOutcome' = "setup_failed"
    /\ UNCHANGED << all_listings, sel_listings, debugFile, apiVars, amazonVars,
                    fileVars, dedupVars, parseVars >>

\* one iteration of the page loop of scrape_with_selenium, lines 65-104, and
\* after the last one lines 106-110 and main()'s lines 482-486
ScrapePage ==
    /\ pc = "selenium_page"
    /\ \E o \in {"ok", "wait_timeout", "get_raises", "find_raises", "debug_write_raises"},
          matches \in PageMatches :
          LET page_listings == extract_selenium_listings(matches)
              writesDebug == page_listings = <<>> /\ page = 1
              raises == \/ o \in {"get_raises", "find_raises"}
                        \/ o = "debug_write_raises" /\ writesDebug
              collected == sel_listings \o page_listings
          IN  IF raises
              THEN /\ driver' = Finally(driver)
                   /\ selOutcome' = o
                   /\ pc' = AfterStrategy("selenium", "raised")
                   /\ UNCHANGED << page, sel_listings, debugFile, all_listings >>
              ELSE /\ sel_listings' = collected
                   /\ debugFile' = (debugFile \/ writesDebug)
                   /\ IF page < max_pages
                      THEN /\ page' = page + 1
                           /\ UNCHANGED << driver, selOutcome, pc, all_listings >>
                      ELSE /\ driver' = Finally(driver)
                           /\ selOutcome' = "returned"
                           /\ all_listings' = MainAccumulate(all_listings, collected)
                           /\ pc' = AfterStrategy("selenium", "returned")
                           /\ page' = page
    /\ UNCHANGED << invoked, apiVars, amazonVars, fileVars, dedupVars, parseVars >>

\* history of a probe: the response has status 200 and a well-formed JSON
\* object with 'data', 'results' or 'ads' among its keys
Qualifies(resp) ==
    /\ resp.net = "ok" /\ resp.status = 200 /\ resp.wellformed
    /\ resp.body.top = "object"
    /\ \E k \in {"data", "results", "ads"} : k \in DOMAIN resp.body.fields

\* history of a probe: the value under the first of 'data', 'results', 'ads'
\* the payload has; only meaningful when the response qualifies
Selected(resp) ==
    LET f == resp.body.fields
    IN  IF "data" \in DOMAIN f THEN f["data"]
        ELSE IF "results" \in DOMAIN f THEN f["results"]
        ELSE IF "ads" \in DOMAIN f THEN f["ads"]
        ELSE JsonNull

\* history of a probe: how many items of the selected value are JSON objects
Objects(resp) ==
    Cardinality({ i \in 1..Len(Selected(resp).items) : IsDict(Selected(resp).items[i]) })

\* one iteration of the endpoint loop of search_olx_api, lines 231-253; when
\* the function ends, lines 255-256 and main()'s lines 495-501
ProbeEndpoint ==
    /\ pc = "api"
    /\ invoked' = IF apiIdx = 1 THEN Append(invoked, "api") ELSE invoked
    /\ \E resp \in Responses :
          LET r == TryEndpoint(resp)
          IN  /\ probes' = Append(probes, [endpoint |-> apiIdx,
                                           qualifies |-> Qualifies(resp),
                                           islist |-> Selected(resp).t = "list",
                                           objects |-> Objects(resp),
                                           next |-> r.next])
              /\ IF r.next = "return"
                 THEN /\ apiResult' = r.listings
                      /\ apiOutcome' = "returned"
                      /\ all_listings' = MainAccumulate(all_listings, r.listings)
                      /\ pc' = AfterStrategy("api", "returned")
                      /\ apiIdx' = apiIdx
                 ELSE IF r.next = "raise"
                 THEN /\ apiOutcome' = "raised"
                      /\ pc' = AfterStrategy("api", "raised")
                      /\ UNCHANGED << apiResult, all_listings, apiIdx >>
                 ELSE IF apiIdx < NumEndpoints
                 THEN /\ apiIdx' = apiIdx + 1
                      /\ UNCHANGED << apiResult, apiOutcome, all_listings, pc >>
                 ELSE /\ apiOutcome' = "returned"             \* lines 255-256
                      /\ apiResult' = <<>>
                      /\ all_listings' = MainAccumulate(all_listings, <<>>)
                      /\ pc' = AfterStrategy("api", "returned")
                      /\ apiIdx' = apiIdx
    /\ UNCHANGED << selVars, amazonVars, fileVars, dedupVars, parseVars >>

\* scrape_amazon_car_covers and main()'s lines 506-512
ScrapeAmazon ==
    /\ pc = "amazon"
    /\ invoked' = Append(invoked, "amazon")
    /\ \E resp \in AmazonResponses :
          LET r == scrape_amazon_car_covers(resp)
          IN  IF r.next = "raise"
              THEN /\ amazonOutcome' = "raised"
                   /\ pc' = AfterStrategy("amazon", "raised")
                   /\ UNCHANGED << amazonResult, all_listings >>
              ELSE /\ amazonResult' = r.listings
                   /\ amazonOutcome' = "returned"
                   /\ all_listings' = MainAccumulate(all_listings, r.listings)
                   /\ pc' = AfterStrategy("amazon", "returned")
    /\ UNCHANGED << selVars, apiVars, fileVars, dedupVars, parseVars >>

\* a KeyboardInterrupt while a strategy runs: the finally of lines 106-108
\* runs when it strikes in the page loop, and nothing in main() catches it
Interrupt ==
    /\ pc \in {"selenium_page", "api", "amazon"}
    /\ driver' = IF pc = "selenium_page" THEN Finally(driver) ELSE driver
    /\ selOutcome' = IF pc = "selenium_page" THEN "interrupted" ELSE selOutcome
    /\ apiOutcome' = IF pc = "api" THEN "interrupted" ELSE apiOutcome
    /\ amazonOutcome' = IF pc = "amazon" THEN "interrupted" ELSE amazonOutcome
    /\ invoked' = IF pc = "amazon" \/ (pc = "api" /\ apiIdx = 1)
                  THEN Append(invoked, pc) ELSE invoked
    /\ pc' = "interrupted"
    /\ UNCHANGED << all_listings, page, sel_listings, debugFile, apiIdx, probes,
                    apiResult, amazonResult, fileVars, dedupVars, parseVars >>

\* lines 515-517: save_results(all_listings) and the success report
SaveResults ==
    /\ pc = "finish"
    /\ ShouldSave(all_listings)
    /\ saveCalls' = Append(saveCalls, all_listings)
    /\ \E io \in IoFaults :
          LET r == save_results(all_listings, csvFile, jsonFile, io)
          IN  /\ csvFile' = r.csv
              /\ jsonFile' = r.json
              /\ saveError' = r.error
              /\ message' = IF r.error = "none" THEN "success" ELSE message
              /\ pc' = IF r.error = "none" THEN "done" ELSE "failed"
    /\ UNCHANGED << all_listings, selVars, apiVars, amazonVars, invoked, dedupVars, parseVars >>

\* lines 518-524: the zero-results report
ReportZero ==
    /\ pc = "finish"
    /\ ~ShouldSave(all_listings)
    /\ message' = "zero"
    /\ pc' = "done"
    /\ UNCHANGED << all_listings, selVars, apiVars, amazonVars, invoked,
                    csvFile, jsonFile, saveCalls, saveError, dedupVars, parseVars >>

\* the deduplicator on its own: any input sequence, one call
DedupListings == {
    [link |-> "https://x/item/1", title |-> "Waterproof Car Cover"],
    [link |-> "https://x/item/1", title |-> "Car Cover, reposted"],
    [link |-> "https://x/item/1/", title |-> "Waterproof Car Cover"],
    [link |-> "https://x/item/2", title |-> "SUV Cover"],
    [link |-> "", title |-> "No link"],
    [title |-> "No link key"] }

InitDedup ==
    /\ pc = "idle"
    /\ all_listings = <<>>
    /\ driver = "none"
    /\ page = 0
    /\ sel_listings = <<>>
    /\ selOutcome = "pending"
    /\ debugFile = FALSE
    /\ apiIdx = 1
    /\ probes = <<>>
    /\ apiOutcome = "pending"
    /\ apiResult = <<>>
    /\ amazonOutcome = "pending"
    /\ amazonResult = <<>>
    /\ invoked = <<>>
    /\ csvFile = PriorCsv
    /\ jsonFile = PriorJson
    /\ saveCalls = <<>>
    /\ saveError = "none"
    /\ message = "none"
    /\ dinput \in SeqsUpTo(DedupListings, MaxDedup)
    /\ doutput = <<>>
    /\ dpc = "call"
    /\ pmatches = [s \in 1..NumSelectors |-> <<>>]
    /\ pparsed = <<>>
    /\ plistings = <<>>
    /\ ppc = "idle"

DedupCall ==
    /\ dpc = "call"
    /\ doutput' = deduplicate_listings(dinput)
    /\ dpc' = "done"
    /\ UNCHANGED << pc, all_listings, selVars, apiVars, amazonVars, invoked,
                    fileVars, dinput, parseVars >>

NextDedup == DedupCall

SpecDedup == InitDedup /\ [][NextDedup]_vars

\* extract_selenium_listings on its own: any loaded page, one call
InitParse ==
    /\ pc = "idle"
    /\ all_listings = <<>>
    /\ driver = "open"
    /\ page = 1
    /\ sel_listings = <<>>
    /\ selOutcome = "pending"
    /\ debugFile = FALSE
    /\ apiIdx = 1
    /\ probes = <<>>
    /\ apiOutcome = "pending"
    /\ apiResult = <<>>
    /\ amazonOutcome = "pending"
    /\ amazonResult = <<>>
    /\ invoked = << "selenium" >>
    /\ csvFile = PriorCsv
    /\ jsonFile = PriorJson
    /\ saveCalls = <<>>
    /\ saveError = "none"
    /\ message = "none"
    /\ dinput = <<>>
    /\ doutput = <<>>
    /\ dpc = "idle"
    /\ pmatches \in PageMatches
    /\ pparsed = <<>>
    /\ plistings = <<>>
    /\ ppc = "call"

\* the elements the loop of lines 123-136 parses: those of the first
\* selector that matches anything
ParsedElements(matches) ==
    LET hits == { s \in 1..NumSelectors : matches[s] # <<>> }
    IN  IF hits = {} THEN <<>>
        ELSE matches[CHOOSE s \in hits : \A t \in hits : s <= t]

ExtractCall ==
    /\ ppc = "call"
    /\ pparsed' = [ i \in 1..Len(ParsedElements(pmatches)) |->
                      parse_selenium_element(ParsedElements(pmatches)[i]) ]
    /\ plistings' = extract_selenium_listings(pmatches)
    /\ ppc' = "done"
    /\ UNCHANGED << pc, all_listings, selVars, apiVars, amazonVars, invoked,
                    fileVars, dedupVars, pmatches >>

NextParse == ExtractCall

SpecParse == InitParse /\ [][NextParse]_vars

Next ==
    \/ SetupDriver
    \/ ScrapePage
    \/ ProbeEndpoint
    \/ ScrapeAmazon
    \/ Interrupt
    \/ SaveResults
    \/ ReportZero

Spec == Init /\ [][Next]_vars

-----------------------------------------------------------------------------
(* Properties *)

Order == << "selenium", "api", "amazon" >>
IsPrefix(a, b) == Len(a) <= Len(b) /\ \A i \in 1..Len(a) : a[i] = b[i]
SelRaised == {"get_raises", "find_raises", "debug_write_raises"}
MainEnded == {"done", "failed"}

NoDuplicateLinks(listings) ==
    \A i, j \in 1..Len(listings) : i # j => listings[i].link # listings[j].link

\* what a strategy handed to main(): nothing when it raised
Contribution(outcome, result) == IF outcome = "returned" THEN result ELSE <<>>

\* C1: the list handed to save_results never holds two listings with the
\* same link
C1_NoDuplicateLinks ==
    \A k \in 1..Len(saveCalls) : NoDuplicateLinks(saveCalls[k])

\* C2: the strategies are invoked in the order Selenium, API, Amazon; main()
\* never reaches its end without having invoked all three, whatever an
\* earlier one returned or raised; a strategy that raised contributes
\* nothing; what the strategies returned is what save_results receives, and
\* save_results is called when a later strategy returned records
C2_LaterStrategiesStillRun ==
    /\ IsPrefix(invoked, Order)
    /\ pc \in {"finish"} \cup MainEnded => invoked = Order
    /\ selOutcome \in SelRaised \cup {"setup_failed"} =>
          pc = "api" \/ Len(invoked) >= 2
    /\ all_listings = Contribution(selOutcome, sel_listings)
                      \o Contribution(apiOutcome, apiResult)
                      \o Contribution(amazonOutcome, amazonResult)
    /\ \A k \in 1..Len(saveCalls) : saveCalls[k] = all_listings
    /\ pc \in MainEnded /\ (apiResult # <<>> \/ amazonResult # <<>>) =>
          Len(saveCalls) = 1

\* C2 witness: the page load of the Selenium strategy raised, the API probe
\* found nothing, and the Amazon records were saved
C2_Witness ==
    /\ selOutcome = "get_raises"
    /\ apiOutcome = "returned" /\ apiResult = <<>>
    /\ amazonResult # <<>>
    /\ pc = "done" /\ message = "success"
    /\ jsonFile.listings = amazonResult

\* C3 as stated: none of the three strategy functions ever raises
C3_NoStrategyRaises ==
    /\ selOutcome \notin SelRaised
    /\ apiOutcome # "raised"
    /\ amazonOutcome # "raised"

\* C3 amended: search_olx_api and scrape_amazon_car_covers never raise, and
\* a failed driver setup makes scrape_with_selenium return; a page load,
\* element lookup or debug-file write error leaves scrape_with_selenium as an
\* exception, after the driver was quit, and main() contains it: nothing is
\* accumulated from the strategy and the API probe runs next
C3_ContainedByMain ==
    /\ apiOutcome # "raised"
    /\ amazonOutcome # "raised"
    /\ selOutcome = "setup_failed" => pc = "api" \/ Len(invoked) >= 2
    /\ selOutcome \in SelRaised =>
          /\ driver = "quit"
          /\ pc = "api" \/ Len(invoked) >= 2
          /\ all_listings = Contribution(apiOutcome, apiResult)
                            \o Contribution(amazonOutcome, amazonResult)

\* C3 witness: the debug-file write raised, and the run went on to its end
C3_Witness ==
    /\ selOutcome = "debug_write_raises"
    /\ apiOutcome = "returned"
    /\ amazonOutcome = "returned"
    /\ pc = "done"

\* C4: save_results is called at most once, and exactly once when main()
\* ends with a non-empty accumulator; when all strategies contributed
\* nothing, main() ends normally with the zero-results report, save_results
\* was not called and neither output file was touched
C4_ZeroResultsNoSave ==
    /\ Len(saveCalls) <= 1
    /\ pc \in MainEnded => (Len(saveCalls) = 1 <=> all_listings # <<>>)
    /\ saveCalls = <<>> => csvFile = PriorCsv /\ jsonFile = PriorJson
    /\ (pc \in MainEnded /\ all_listings = <<>>) =>
          /\ pc = "done"
          /\ message = "zero"
          /\ saveError = "none"
          /\ saveCalls = <<>>
    /\ (pc = "finish" /\ all_listings = <<>>) => ENABLED ReportZero

\* C4 witness: all three strategies ran, none contributed, zero was reported
C4_Witness ==
    /\ pc = "done"
    /\ invoked = Order
    /\ all_listings = <<>>
    /\ message = "zero"

\* C5: no accumulated listing lacks a real title or a real link
C5_NoPlaceholderTitleOrLink ==
    \A i \in 1..Len(all_listings) :
        /\ all_listings[i].title \notin {"", "N/A"}
        /\ all_listings[i].link \notin {"", "N/A"}

-----------------------------------------------------------------------------
(* The deduplicator's contract, stated without the code *)

HasLinkKey(l) == "link" \in DOMAIN l

\* the listings of xs at the positions in I, in input order
RECURSIVE PickFrom(_, _, _)
PickFrom(xs, I, i) ==
    IF i > Len(xs) THEN <<>>
    ELSE (IF i \in I THEN << xs[i] >> ELSE <<>>) \o PickFrom(xs, I, i + 1)

\* positions of the first listing of each link value that occurs in xs
FirstOfEachLink(xs) ==
    { i \in 1..Len(xs) :
        /\ HasLinkKey(xs[i])
        /\ \A j \in 1..(i - 1) : ~(HasLinkKey(xs[j]) /\ xs[j].link = xs[i].link) }

\* the same, for the non-empty link values only
FirstOfEachNonEmptyLink(xs) == { i \in FirstOfEachLink(xs) : xs[i].link # "" }

\* C6 as stated: the output is the input restricted to the first listing of
\* every distinct link value occurring in it, in input order
C6_FirstPerLink ==
    dpc = "done" => doutput = PickFrom(dinput, FirstOfEachLink(dinput), 1)

\* C6 amended: the output is the input restricted to the first listing of
\* every distinct non-empty link value, in input order; listings whose link
\* is empty or missing are dropped; links are compared as exact strings
C6_FirstPerNonEmptyLink ==
    dpc = "done" =>
        /\ doutput = PickFrom(dinput, FirstOfEachNonEmptyLink(dinput), 1)
        /\ \A i \in 1..Len(doutput) : HasLinkKey(doutput[i]) /\ doutput[i].link # ""
        /\ NoDuplicateLinks(doutput)

\* C6 witness: two different listings with the same link around one with
\* an empty link, deduplicated to the first listing alone
C6_Witness ==
    /\ dpc = "done"
    /\ Len(dinput) = 3
    /\ HasLinkKey(dinput[1]) /\ dinput[1].link = "https://x/item/1"
    /\ HasLinkKey(dinput[2]) /\ dinput[2].link = ""
    /\ HasLinkKey(dinput[3]) /\ dinput[3].link = dinput[1].link /\ dinput[3] # dinput[1]
    /\ doutput = << dinput[1] >>

-----------------------------------------------------------------------------

\* C7: save_results raises nothing but I/O errors
C7_SaveFailsOnlyOnIO ==
    /\ saveError \in {"none", "IOError"}
    /\ (pc \in MainEnded /\ saveCalls # <<>> /\ saveError = "none") =>
          /\ csvFile.status = "complete"
          /\ Len(csvFile.rows) = Len(saveCalls[1])
          /\ jsonFile.status = "complete"

\* C8: the two output files are never left inconsistent: both hold the new
\* result set, or both are as they were before the call
C8_FilesConsistent ==
    \/ csvFile.status = "complete" /\ jsonFile.status = "complete"
    \/ csvFile = PriorCsv /\ jsonFile = PriorJson

\* C9: once scrape_with_selenium has returned or raised, a driver that was
\* created has been quit
C9_DriverReleased ==
    pc \notin {"selenium", "selenium_page"} => driver # "open"

\* C10 as stated: every endpoint that answers 200 with a JSON object holding
\* 'data', 'results' or 'ads' is accepted, whatever the value under the key
C10_QualifyingIsAccepted ==
    \A k \in 1..Len(probes) : probes[k].qualifies => probes[k].next = "return"

\* C10 amended: endpoints are requested in list order; an endpoint is
\* accepted exactly when it qualifies and the value selected from its payload
\* is a list; an accepted endpoint is the last one requested and the result
\* holds one record per JSON object of that list; a qualifying payload whose
\* selected value is not a list is skipped without an error; when no
\* endpoint is accepted all four were requested and the result is empty
C10_FirstParsableIsAccepted ==
    /\ apiOutcome # "raised"
    /\ Len(probes) <= NumEndpoints
    /\ \A k \in 1..Len(probes) :
          /\ probes[k].endpoint = k
          /\ probes[k].next = "return" <=> (probes[k].qualifies /\ probes[k].islist)
          /\ probes[k].next = "return" =>
                /\ k = Len(probes)
                /\ apiOutcome = "returned"
                /\ Len(apiResult) = probes[k].objects
          /\ probes[k].next # "return" => probes[k].next = "continue"
    /\ (apiOutcome = "returned" /\ \A k \in 1..Len(probes) : probes[k].next # "return") =>
          /\ Len(probes) = NumEndpoints
          /\ apiResult = <<>>

\* C10 witness: the first endpoint qualified but its value was no list, the
\* second one was requested and accepted with records
C10_Witness ==
    /\ Len(probes) = 2
    /\ probes[1].qualifies /\ ~probes[1].islist /\ probes[1].next = "continue"
    /\ probes[2].next = "return"
    /\ apiOutcome = "returned"
    /\ apiResult # <<>>

-----------------------------------------------------------------------------
(* The element parser's contract, stated without the code *)

\* the element has a detail link containing '/item/'
HasDetailLink(e) == e.href \in { "https://www.olx.in/item/1", "https://www.olx.in/item/2" }

\* the title the element resolves to: its first line of text, or the heading
\* when that line is under 5 characters ("" when there is no heading)
ResolvedTitle(e) ==
    IF Len(e.text) >= 5 THEN e.text
    ELSE IF e.heading = "absent" THEN "" ELSE e.heading

Eligible(e) == HasDetailLink(e) /\ Len(ResolvedTitle(e)) >= 5

ListingKeys == {"link", "title", "price", "location", "date", "image_url"}

\* C11: every element with a detail link containing '/item/' and a resolved
\* title of at least 5 characters is parsed into a record with the six
\* listing keys, None is returned only for the other elements, and a page
\* with at least one such element yields a non-empty list
C11_EligibleElementsAreParsed ==
    ppc = "done" =>
        LET elements == ParsedElements(pmatches)
        IN  /\ \A i \in 1..Len(elements) :
                  IF Eligible(elements[i])
                  THEN /\ Len(pparsed[i]) = 1
                       /\ DOMAIN pparsed[i][1] = ListingKeys
                       /\ pparsed[i][1].link = elements[i].href
                  ELSE pparsed[i] = <<>>
            /\ (\E i \in 1..Len(elements) : Eligible(elements[i])) => plistings # <<>>

====
